---- MODULE Spec2Model ----
(***************************************************************************)
(* Baby sleep-schedule planner: schedule generation and the drag handlers  *)
(* that adjust a schedule on the timeline.                                 *)
(*                                                                         *)
(* The repository holds several revisions of src/app/page.tsx.  The        *)
(* variable `variant` says which revision is running:                      *)
(*   "page"  src/src/app/page.tsx   independent-clamp wake, gap 30,        *)
(*                                  napMove, 22:00 bedtime ceiling         *)
(*   "shift" src/unnamed/part_004, lines 1-363: rigid-shift wake, gap 30,  *)
(*                                  no napMove, 22:00 bedtime ceiling      *)
(*   "form"  src/unnamed/part_002   input form, rigid-shift wake, gap 15,  *)
(*                                  no ceiling, timeline that grows        *)
(*   "slider" src/unnamed/part_004, lines 365-603: input form and one     *)
(*                                  range slider per event                 *)
(*   "gen"   generateSchedule of src/src/app/page.tsx applied to inputs    *)
(*           drawn from bounded sets (pure-function harness)               *)
(*   "fmt"   formatTime and parseTime applied to minute offsets drawn from *)
(*           a bounded set (pure-function harness)                         *)
(*   "ind"   the drag updater of src/src/app/page.tsx applied to schedules *)
(*           drawn from a bounded set (pure-function harness)              *)
(*   "clock" src/unnamed/part_003   clock face with a bedtime and a wake    *)
(*                                  handle, no naps                        *)
(*   "win"   the generators of all revisions and of lib/schedule.ts        *)
(*           applied to the same inputs (pure-function harness)            *)
(* wakeTime and showSchedule are state of the "form" revision only; the    *)
(* other revisions leave them at a fixed value.                            *)
(* Times are minutes from midnight.  Sequences are 1-based, so the code's  *)
(* naps[i] is naps[i + 1] here; dragging.index keeps the code's 0-based    *)
(* value.                                                                  *)
(***************************************************************************)
EXTENDS Integers, Sequences, FiniteSets, TLC

VARIABLES variant, ageMonths, numNaps, wakeTime, showSchedule, schedule,
          dragging, crashed, steps, last

vars == <<variant, ageMonths, numNaps, wakeTime, showSchedule, schedule,
          dragging, crashed, steps, last>>

(***************************************************************************)
(* Bounds of the model.                                                    *)
(***************************************************************************)
\* height in pixels of the timeline element (rect.height)
RectHeight == 1080
\* pointer positions are taken every PixelStep pixels, from one step above
\* the timeline to one step below it
PixelStep == 90
\* mouse-down positions inside a nap block: its top and bottom edges and
\* ClickStep pixels inside each of them
ClickStep == 13
\* number of schedule-changing events (drag steps, selections) in a run
MaxSteps == 2
\* wake times given to the generator harness: 0, 5, ..., 5 * MaxWakeSlot
MaxWakeSlot == 287
\* minute offsets given to formatTime: -MaxMinute .. MaxMinute
MaxMinute == 2880
\* durations given to the out-of-range checks: 0 .. MaxDuration
MaxDuration == 320
\* slider positions are taken every SliderStep minutes
SliderStep == 85
\* schedules given to the drag updater on its own: up to MaxNapsInd naps,
\* gaps up to GapSlack minutes above the least the invariant allows
MaxNapsInd == 2
GapSlack == 20
\* pointer directions on the clock face are taken every AngleStep tenths of a
\* degree
AngleStep == 150

(***************************************************************************)
(* JavaScript arithmetic.                                                  *)
(***************************************************************************)
Min(a, b) == IF a < b THEN a ELSE b

Max(a, b) == IF a > b THEN a ELSE b

\* Math.round(a / b) for b > 0: the nearest integer, halves rounded up
MathRound(a, b) == (2 * a + b) \div (2 * b)

(***************************************************************************)
(* src/src/app/page.tsx: age tables and the generator.                     *)
(***************************************************************************)
getAwakeWindowRange(age) ==
  IF age < 3 THEN [min |-> 45, max |-> 60]
  ELSE IF age < 6 THEN [min |-> 90, max |-> 150]
  ELSE IF age < 9 THEN [min |-> 120, max |-> 180]
  ELSE IF age < 12 THEN [min |-> 180, max |-> 240]
  ELSE [min |-> 180, max |-> 300]

getAwakeWindow(age) ==
  LET range == getAwakeWindowRange(age)
  IN  MathRound(range.min + range.max, 2)

getNapDurationRange(age, isLastNap) ==
  IF isLastNap THEN [min |-> 20, max |-> 45]
  ELSE IF age < 3 THEN [min |-> 30, max |-> 60]
  ELSE IF age < 6 THEN [min |-> 45, max |-> 90]
  ELSE IF age < 9 THEN [min |-> 60, max |-> 120]
  ELSE [min |-> 60, max |-> 120]

\* the result null is "null"
isAwakeWindowOutOfRange(duration, age) ==
  LET range == getAwakeWindowRange(age)
  IN  IF duration < range.min THEN "short"
      ELSE IF duration > range.max THEN "long"
      ELSE "null"

\* faulty isNapOutOfRange: a nap of exactly the minimum is called short
isNapOutOfRangeExclusive(duration, age, isLastNap) ==
  LET range == getNapDurationRange(age, isLastNap)
  IN  IF duration <= range.min THEN "short"
      ELSE IF duration > range.max THEN "long"
      ELSE "null"

isNapOutOfRange(duration, age, isLastNap) ==
  LET range == getNapDurationRange(age, isLastNap)
  IN  IF duration < range.min THEN "short"
      ELSE IF duration > range.max THEN "long"
      ELSE "null"

\* faulty getNapDuration: the catnap test is off by one
getNapDurationOffByOne(age, napNumber, totalNaps) ==
  LET isLastNap == napNumber = totalNaps - 1
  IN  IF age < 3 THEN (IF isLastNap THEN 30 ELSE 45)
      ELSE IF age < 6 THEN (IF isLastNap THEN 30 ELSE 60)
      ELSE IF age < 9 THEN (IF isLastNap THEN 30 ELSE 75)
      ELSE (IF isLastNap THEN 30 ELSE 90)

getNapDuration(age, napNumber, totalNaps) ==
  LET isLastNap == napNumber = totalNaps
  IN  IF age < 3 THEN (IF isLastNap THEN 30 ELSE 45)
      ELSE IF age < 6 THEN (IF isLastNap THEN 30 ELSE 60)
      ELSE IF age < 9 THEN (IF isLastNap THEN 30 ELSE 75)
      ELSE (IF isLastNap THEN 30 ELSE 90)

getSuggestedNaps(age) ==
  IF age < 3 THEN 4
  ELSE IF age < 6 THEN 3
  ELSE IF age < 9 THEN 3
  ELSE 2

\* the for loop of generateSchedule, from iteration i on: the state of the
\* loop is (currentTime, naps); the result is the state after the last pass
\* (the loop is the same text in every revision; awakeWindow is the local
\* constant computed before it)
RECURSIVE generateLoop(_, _, _, _, _, _)
generateLoop(awakeWindow, age, totalNaps, i, currentTime, naps) ==
  IF i > totalNaps THEN [currentTime |-> currentTime, naps |-> naps]
  ELSE LET napStart == currentTime + awakeWindow
           napEnd == napStart + getNapDuration(age, i, totalNaps)
       IN  generateLoop(awakeWindow, age, totalNaps, i + 1, napEnd,
             Append(naps, [startMinutes |-> napStart, endMinutes |-> napEnd]))

\* faulty ceiling: 23:00 instead of 22:00
capBedtimeAt23(currentTime) == Min(currentTime, 23 * 60)

\* the ceiling applied to a generated bedtime: Math.min(currentTime, 22 * 60)
capBedtime(currentTime) == Min(currentTime, 22 * 60)

\* faulty generateSchedule: the last nap is left out of the result
generateScheduleDropsNap(age, totalNaps, wake) ==
  LET awakeWindow == getAwakeWindow(age)
      loop == generateLoop(awakeWindow, age, totalNaps, 1, wake, <<>>)
  IN  [wakeTime |-> wake,
       bedtime |-> capBedtime(loop.currentTime + awakeWindow),
       naps |-> SubSeq(loop.naps, 1, totalNaps - 1)]

generateSchedule(age, totalNaps, wake) ==
  LET awakeWindow == getAwakeWindow(age)
      loop == generateLoop(awakeWindow, age, totalNaps, 1, wake, <<>>)
  IN  [wakeTime |-> wake,
       bedtime |-> capBedtime(loop.currentTime + awakeWindow),
       naps |-> loop.naps]

(***************************************************************************)
(* src/src/app/page.tsx: the Home component.                               *)
(***************************************************************************)
\* the age <select> offers 1..24
AgeOptions == 1..24

\* the ages selected in a run: both ends of the list and the first age of
\* every band of the age tables
AgeInputs == {1, 3, 6, 9, 12, 24}

\* the naps <select> offers 1..5
NapOptions == 1..5

timelineStart == 300

timelineEnd == 1380

timelineRange == timelineEnd - timelineStart

\* dragging = null
NoDrag == [type |-> "null", index |-> -1, offset |-> -1]

\* a field the code leaves undefined is -1
Drag(type, index, offset) == [type |-> type, index |-> index, offset |-> offset]

\* percentToMinutes applied to the clamped percent of a pointer at y pixels
\* below the top of a timeline of RectHeight pixels: the percent is
\* 100 * y / RectHeight kept within 0..100
percentToMinutes(y, tStart, tRange) ==
  LET yClamped == Max(0, Min(RectHeight, y))
  IN  MathRound(yClamped * tRange, RectHeight) + tStart

\* Math.round(v / 5) * 5
snap5(v) == MathRound(v, 5) * 5

\* the minute value handleMouseMove derives from a pointer position
pointerMinutes(y) == snap5(percentToMinutes(y, timelineStart, timelineRange))

\* pointer positions, from above the timeline to below it
PointerYs == { k * PixelStep - PixelStep : k \in 0..(RectHeight \div PixelStep + 2) }

\* naps[index] of the code, index from 0
napAt(s, index) == s.naps[index + 1]

\* updated.naps[index] = nap
withNap(s, index, nap) == [s EXCEPT !.naps[index + 1] = nap]

\* faulty wake branch: the gap to the first nap is 15 instead of 30
wakeStepGap15(prev, minutes) ==
  LET maxWake == IF Len(prev.naps) > 0
                 THEN napAt(prev, 0).startMinutes - 15
                 ELSE prev.bedtime - 60
  IN  [prev EXCEPT !.wakeTime = Min(minutes, maxWake)]

wakeStep(prev, minutes) ==
  LET maxWake == IF Len(prev.naps) > 0
                 THEN napAt(prev, 0).startMinutes - 30
                 ELSE prev.bedtime - 60
  IN  [prev EXCEPT !.wakeTime = Min(minutes, maxWake)]

\* faulty bedtime branch: the gap after the last nap is 15 instead of 30
bedtimeStepGap15(prev, minutes) ==
  LET minBedtime == IF Len(prev.naps) > 0
                    THEN napAt(prev, Len(prev.naps) - 1).endMinutes + 15
                    ELSE prev.wakeTime + 60
  IN  [prev EXCEPT !.bedtime = Max(minBedtime, minutes)]

bedtimeStep(prev, minutes) ==
  LET minBedtime == IF Len(prev.naps) > 0
                    THEN napAt(prev, Len(prev.naps) - 1).endMinutes + 30
                    ELSE prev.wakeTime + 60
  IN  [prev EXCEPT !.bedtime = Max(minBedtime, minutes)]

\* faulty napStart branch: the lower clamp is forgotten
napStartStepNoLowerClamp(prev, index, minutes) ==
  LET nap == napAt(prev, index)
      maxStart == nap.endMinutes - 15
  IN  withNap(prev, index,
        [nap EXCEPT !.startMinutes = Min(maxStart, minutes)])

\* faulty napStart branch: the whole block moves with its start
napStartStepMovesEnd(prev, index, minutes) ==
  LET nap == napAt(prev, index)
      minStart == IF index = 0
                  THEN prev.wakeTime + 30
                  ELSE napAt(prev, index - 1).endMinutes + 30
      maxStart == nap.endMinutes - 15
      newStart == Max(minStart, Min(maxStart, minutes))
  IN  withNap(prev, index,
        [startMinutes |-> newStart,
         endMinutes |-> nap.endMinutes + newStart - nap.startMinutes])

napStartStep(prev, index, minutes) ==
  LET nap == napAt(prev, index)
      minStart == IF index = 0
                  THEN prev.wakeTime + 30
                  ELSE napAt(prev, index - 1).endMinutes + 30
      maxStart == nap.endMinutes - 15
  IN  withNap(prev, index,
        [nap EXCEPT !.startMinutes = Max(minStart, Min(maxStart, minutes))])

napEndStep(prev, index, minutes) ==
  LET nap == napAt(prev, index)
      minEnd == nap.startMinutes + 15
      maxEnd == IF index < Len(prev.naps) - 1
                THEN napAt(prev, index + 1).startMinutes - 30
                ELSE prev.bedtime - 30
  IN  withNap(prev, index,
        [nap EXCEPT !.endMinutes = Max(minEnd, Min(maxEnd, minutes))])

\* faulty napMove branch: the block is not stopped at the next boundary
napMoveStepNoUpperClamp(prev, index, offset, minutes) ==
  LET nap == napAt(prev, index)
      duration == nap.endMinutes - nap.startMinutes
      newStart == minutes - offset
      minStart == IF index = 0
                  THEN prev.wakeTime + 30
                  ELSE napAt(prev, index - 1).endMinutes + 30
      clampedStart == Max(minStart, newStart)
  IN  withNap(prev, index,
        [startMinutes |-> clampedStart, endMinutes |-> clampedStart + duration])

napMoveStep(prev, index, offset, minutes) ==
  LET nap == napAt(prev, index)
      duration == nap.endMinutes - nap.startMinutes
      newStart == minutes - offset
      minStart == IF index = 0
                  THEN prev.wakeTime + 30
                  ELSE napAt(prev, index - 1).endMinutes + 30
      maxEnd == IF index < Len(prev.naps) - 1
                THEN napAt(prev, index + 1).startMinutes - 30
                ELSE prev.bedtime - 30
      maxStart == maxEnd - duration
      clampedStart == Max(minStart, Min(maxStart, newStart))
  IN  withNap(prev, index,
        [startMinutes |-> clampedStart, endMinutes |-> clampedStart + duration])

\* the setSchedule updater of handleMouseMove reads a field of
\* updated.naps[dragging.index]; when that nap does not exist the read throws
updaterThrows(prev, drag) ==
  /\ drag.type \in {"napStart", "napEnd", "napMove"}
  /\ drag.index >= Len(prev.naps)

\* the setSchedule updater of handleMouseMove
scheduleUpdater(prev, drag, minutes) ==
  IF drag.type = "wake" THEN wakeStep(prev, minutes)
  ELSE IF drag.type = "bedtime" THEN bedtimeStep(prev, minutes)
  ELSE IF drag.type = "napStart" /\ drag.index # -1
    THEN napStartStep(prev, drag.index, minutes)
  ELSE IF drag.type = "napEnd" /\ drag.index # -1
    THEN napEndStep(prev, drag.index, minutes)
  ELSE IF drag.type = "napMove" /\ drag.index # -1 /\ drag.offset # -1
    THEN napMoveStep(prev, drag.index, drag.offset, minutes)
  ELSE prev

\* getAwakeWindows: from wake to the first nap, between naps, and from the
\* last nap to bedtime; none without naps
getAwakeWindows(s) ==
  IF Len(s.naps) > 0
  THEN << [start |-> s.wakeTime, end |-> s.naps[1].startMinutes] >>
       \o [i \in 1..(Len(s.naps) - 1) |->
             [start |-> s.naps[i].endMinutes, end |-> s.naps[i + 1].startMinutes]]
       \o << [start |-> s.naps[Len(s.naps)].endMinutes, end |-> s.bedtime] >>
  ELSE <<>>

\* the warning the render computes for every awake window
awakeWarnings(s, age) ==
  LET windows == getAwakeWindows(s)
  IN  [i \in 1..Len(windows) |->
         isAwakeWindowOutOfRange(windows[i].end - windows[i].start, age)]

\* the warning the render computes for every nap block
napWarnings(s, age) ==
  [i \in 1..Len(s.naps) |->
     isNapOutOfRange(s.naps[i].endMinutes - s.naps[i].startMinutes, age,
                     i = Len(s.naps))]

\* the record of the event handled last: its kind, the dragging state and the
\* pointer minutes it used, and the schedule it started from
Event(op, drag, minutes, prev) ==
  [op |-> op, drag |-> drag, minutes |-> minutes, prev |-> prev]

\* schedule = null (the "form" revision before a submit), and the schedule
\* field of an event that has none
NoSchedule == [wakeTime |-> -1, bedtime |-> -1, naps |-> <<>>]

\* the wakeTime string of a revision that has none
NoTime == <<>>

\* useState initialisers of Home, and the mount effect, which regenerates the
\* same schedule
InitPage ==
  /\ variant = "page"
  /\ ageMonths = 6
  /\ numNaps = 3
  /\ wakeTime = NoTime
  /\ showSchedule = TRUE
  /\ schedule = generateSchedule(6, 3, 7 * 60 + 30)
  /\ dragging = NoDrag
  /\ crashed = FALSE
  /\ steps = 0
  /\ last = Event("mount", NoDrag, -1, NoSchedule)

\* faulty age select: the schedule is regenerated with the old nap count
SelectAgeKeepsNapCount(age) ==
  /\ variant = "page" /\ ~crashed /\ steps < MaxSteps
  /\ age \in AgeOptions /\ age # ageMonths
  /\ ageMonths' = age
  /\ numNaps' = getSuggestedNaps(age)
  /\ schedule' = generateSchedule(age, numNaps, schedule.wakeTime)
  /\ steps' = steps + 1
  /\ last' = Event("selectAge", dragging, -1, schedule)
  /\ UNCHANGED <<variant, wakeTime, showSchedule, dragging, crashed>>

\* onChange of the age select, with the regeneration effect its state change
\* triggers
SelectAge(age) ==
  /\ variant = "page" /\ ~crashed /\ steps < MaxSteps
  /\ age \in AgeOptions /\ age # ageMonths
  /\ ageMonths' = age
  /\ numNaps' = getSuggestedNaps(age)
  /\ schedule' = generateSchedule(age, getSuggestedNaps(age), schedule.wakeTime)
  /\ steps' = steps + 1
  /\ last' = Event("selectAge", dragging, -1, schedule)
  /\ UNCHANGED <<variant, wakeTime, showSchedule, dragging, crashed>>

\* faulty regeneration: the schedule restarts from the initial wake time
SelectNapsFromInitialWake(n) ==
  /\ variant = "page" /\ ~crashed /\ steps < MaxSteps
  /\ n \in NapOptions /\ n # numNaps
  /\ numNaps' = n
  /\ schedule' = generateSchedule(ageMonths, n, 7 * 60 + 30)
  /\ steps' = steps + 1
  /\ last' = Event("selectNaps", dragging, -1, schedule)
  /\ UNCHANGED <<variant, ageMonths, wakeTime, showSchedule, dragging, crashed>>

\* onChange of the naps select, with the regeneration effect
SelectNaps(n) ==
  /\ variant = "page" /\ ~crashed /\ steps < MaxSteps
  /\ n \in NapOptions /\ n # numNaps
  /\ numNaps' = n
  /\ schedule' = generateSchedule(ageMonths, n, schedule.wakeTime)
  /\ steps' = steps + 1
  /\ last' = Event("selectNaps", dragging, -1, schedule)
  /\ UNCHANGED <<variant, ageMonths, wakeTime, showSchedule, dragging, crashed>>

\* onMouseDown of the wake marker
MouseDownWake ==
  /\ variant = "page" /\ ~crashed /\ steps < MaxSteps
  /\ dragging' = Drag("wake", -1, -1)
  /\ last' = Event("mouseDown", NoDrag, -1, NoSchedule)
  /\ UNCHANGED <<variant, ageMonths, numNaps, wakeTime, showSchedule, schedule, crashed, steps>>

\* onMouseDown of the bedtime marker
MouseDownBedtime ==
  /\ variant = "page" /\ ~crashed /\ steps < MaxSteps
  /\ dragging' = Drag("bedtime", -1, -1)
  /\ last' = Event("mouseDown", NoDrag, -1, NoSchedule)
  /\ UNCHANGED <<variant, ageMonths, numNaps, wakeTime, showSchedule, schedule, crashed, steps>>

\* the dragging state onMouseDown of nap block `index` sets for a press
\* clickY pixels below the top of the block.  The block is
\* duration * RectHeight / timelineRange pixels high, so
\* clickY / napHeight * duration is clickY * timelineRange / RectHeight.
napGrab(s, index, clickY) ==
  LET nap == napAt(s, index)
      duration == nap.endMinutes - nap.startMinutes
      edgeZone == 12
  IN  IF clickY < edgeZone THEN Drag("napStart", index, -1)
      ELSE IF clickY * timelineRange > duration * RectHeight - edgeZone * timelineRange
        THEN Drag("napEnd", index, -1)
      ELSE Drag("napMove", index, MathRound(clickY * timelineRange, RectHeight))

\* press positions inside nap block `index`, within 0 .. napHeight; a block
\* of no height cannot be pressed
ClickYs(s, index) ==
  LET nap == napAt(s, index)
      duration == nap.endMinutes - nap.startMinutes
      napHeight == (duration * RectHeight) \div timelineRange
  IN  { clickY \in {0, ClickStep, napHeight - ClickStep, napHeight} :
          duration > 0 /\ clickY >= 0 /\ clickY <= napHeight }

\* onMouseDown of a nap block
MouseDownNap(index, clickY) ==
  /\ variant = "page" /\ ~crashed /\ steps < MaxSteps
  /\ index < Len(schedule.naps)
  /\ clickY \in ClickYs(schedule, index)
  /\ dragging' = napGrab(schedule, index, clickY)
  /\ last' = Event("mouseDown", NoDrag, -1, NoSchedule)
  /\ UNCHANGED <<variant, ageMonths, numNaps, wakeTime, showSchedule, schedule, crashed, steps>>

\* the dragging states a press on schedule s can set in page.tsx
DragsOf(s) ==
  {Drag("wake", -1, -1), Drag("bedtime", -1, -1)} \cup
  UNION { { napGrab(s, index, clickY) : clickY \in ClickYs(s, index) } :
            index \in 0..(Len(s.naps) - 1) }

\* faulty handleMouseMove: it stays registered without its guard, and a
\* pointer move made while idle drags the wake marker
HandleMouseMoveWhileIdle(y) ==
  LET drag == IF dragging = NoDrag THEN Drag("wake", -1, -1) ELSE dragging
  IN  /\ variant = "page" /\ ~crashed /\ steps < MaxSteps
      /\ IF updaterThrows(schedule, drag)
         THEN /\ crashed' = TRUE
              /\ last' = Event("throw", drag, pointerMinutes(y), schedule)
              /\ UNCHANGED <<schedule, steps>>
         ELSE /\ schedule' = scheduleUpdater(schedule, drag, pointerMinutes(y))
              /\ steps' = steps + 1
              /\ last' = Event("drag", drag, pointerMinutes(y), schedule)
              /\ UNCHANGED crashed
      /\ UNCHANGED <<variant, ageMonths, numNaps, wakeTime, showSchedule, dragging>>

\* handleMouseMove, registered on window while dragging is not null
HandleMouseMove(y) ==
  /\ variant = "page" /\ ~crashed /\ steps < MaxSteps
  /\ dragging # NoDrag
  /\ IF updaterThrows(schedule, dragging)
     THEN /\ crashed' = TRUE
          /\ last' = Event("throw", dragging, pointerMinutes(y), schedule)
          /\ UNCHANGED <<schedule, steps>>
     ELSE /\ schedule' = scheduleUpdater(schedule, dragging, pointerMinutes(y))
          /\ steps' = steps + 1
          /\ last' = Event("drag", dragging, pointerMinutes(y), schedule)
          /\ UNCHANGED crashed
  /\ UNCHANGED <<variant, ageMonths, numNaps, wakeTime, showSchedule, dragging>>

\* faulty handleMouseUp: a nap that is being moved stays grabbed
HandleMouseUpKeepsNapMove ==
  /\ variant = "page" /\ ~crashed
  /\ dragging # NoDrag
  /\ dragging' = IF dragging.type = "napMove" THEN dragging ELSE NoDrag
  /\ last' = Event("mouseUp", NoDrag, -1, NoSchedule)
  /\ UNCHANGED <<variant, ageMonths, numNaps, wakeTime, showSchedule, schedule, crashed, steps>>

\* handleMouseUp, registered on window while dragging is not null
HandleMouseUp ==
  /\ variant = "page" /\ ~crashed
  /\ dragging # NoDrag
  /\ dragging' = NoDrag
  /\ last' = Event("mouseUp", NoDrag, -1, NoSchedule)
  /\ UNCHANGED <<variant, ageMonths, numNaps, wakeTime, showSchedule, schedule, crashed, steps>>

NextPage ==
  \/ \E age \in AgeInputs : SelectAge(age)
  \/ \E n \in NapOptions : SelectNaps(n)
  \/ MouseDownWake
  \/ MouseDownBedtime
  \/ \E index \in 0..(Len(schedule.naps) - 1) :
       \E clickY \in ClickYs(schedule, index) : MouseDownNap(index, clickY)
  \/ \E y \in PointerYs : HandleMouseMove(y)
  \/ HandleMouseUp

SpecPage == InitPage /\ [][NextPage]_vars

(***************************************************************************)
(* src/unnamed/part_004, lines 1-363: the revision with a rigid-shift wake *)
(* drag.  getNapDuration, getSuggestedNaps, the generator loop and the     *)
(* bedtime, napStart and napEnd branches are the same text as in           *)
(* src/src/app/page.tsx and use the definitions above.                     *)
(***************************************************************************)
\* faulty constant table: the first band holds the midpoint rounded up
getAwakeWindowFixedRoundedUp(age) ==
  IF age < 3 THEN 53
  ELSE IF age < 6 THEN 120
  ELSE IF age < 9 THEN 150
  ELSE 210

\* getAwakeWindow of part_004 and part_002: a constant per age band
getAwakeWindowFixed(age) ==
  IF age < 3 THEN 52
  ELSE IF age < 6 THEN 120
  ELSE IF age < 9 THEN 150
  ELSE 210

generateScheduleShift(age, totalNaps, wake) ==
  LET awakeWindow == getAwakeWindowFixed(age)
      loop == generateLoop(awakeWindow, age, totalNaps, 1, wake, <<>>)
  IN  [wakeTime |-> wake,
       bedtime |-> Min(loop.currentTime + awakeWindow, 22 * 60),
       naps |-> loop.naps]

timelineStartShift == 300

timelineEndShift == 1320

pointerMinutesShift(y) ==
  snap5(percentToMinutes(y, timelineStartShift, timelineEndShift - timelineStartShift))

\* updated.naps.map(nap => ({ startMinutes + delta, endMinutes + delta }))
shiftNaps(naps, delta) ==
  [i \in 1..Len(naps) |->
     [startMinutes |-> naps[i].startMinutes + delta,
      endMinutes |-> naps[i].endMinutes + delta]]

\* faulty rigid shift: bedtime is left where it was
wakeShiftStepKeepsBedtime(prev, minutes) ==
  LET delta == minutes - prev.wakeTime
  IN  [wakeTime |-> minutes,
       bedtime |-> prev.bedtime,
       naps |-> shiftNaps(prev.naps, delta)]

\* the wake branch of part_004 (lines 113-120) and part_002 (lines 148-155)
wakeShiftStep(prev, minutes) ==
  LET delta == minutes - prev.wakeTime
  IN  [wakeTime |-> minutes,
       bedtime |-> prev.bedtime + delta,
       naps |-> shiftNaps(prev.naps, delta)]

updaterThrowsShift(prev, drag) ==
  /\ drag.type \in {"napStart", "napEnd"}
  /\ drag.index >= Len(prev.naps)

scheduleUpdaterShift(prev, drag, minutes) ==
  IF drag.type = "wake" THEN wakeShiftStep(prev, minutes)
  ELSE IF drag.type = "bedtime" THEN bedtimeStep(prev, minutes)
  ELSE IF drag.type = "napStart" /\ drag.index # -1
    THEN napStartStep(prev, drag.index, minutes)
  ELSE IF drag.type = "napEnd" /\ drag.index # -1
    THEN napEndStep(prev, drag.index, minutes)
  ELSE prev

InitShift ==
  /\ variant = "shift"
  /\ ageMonths = 6
  /\ numNaps = 3
  /\ wakeTime = NoTime
  /\ showSchedule = TRUE
  /\ schedule = generateScheduleShift(6, 3, 6 * 60 + 30)
  /\ dragging = NoDrag
  /\ crashed = FALSE
  /\ steps = 0
  /\ last = Event("mount", NoDrag, -1, NoSchedule)

SelectAgeShift(age) ==
  /\ variant = "shift" /\ ~crashed /\ steps < MaxSteps
  /\ age \in AgeOptions /\ age # ageMonths
  /\ ageMonths' = age
  /\ numNaps' = getSuggestedNaps(age)
  /\ schedule' = generateScheduleShift(age, getSuggestedNaps(age), schedule.wakeTime)
  /\ steps' = steps + 1
  /\ last' = Event("selectAge", dragging, -1, schedule)
  /\ UNCHANGED <<variant, wakeTime, showSchedule, dragging, crashed>>

SelectNapsShift(n) ==
  /\ variant = "shift" /\ ~crashed /\ steps < MaxSteps
  /\ n \in NapOptions /\ n # numNaps
  /\ numNaps' = n
  /\ schedule' = generateScheduleShift(ageMonths, n, schedule.wakeTime)
  /\ steps' = steps + 1
  /\ last' = Event("selectNaps", dragging, -1, schedule)
  /\ UNCHANGED <<variant, ageMonths, wakeTime, showSchedule, dragging, crashed>>

\* onMouseDown of the wake marker, the bedtime marker and the two handles of
\* a nap block: setDragging({ type }) or setDragging({ type, index })
MouseDownShift(type, index) ==
  /\ variant = "shift" /\ ~crashed /\ steps < MaxSteps
  /\ \/ type \in {"wake", "bedtime"} /\ index = -1
     \/ type \in {"napStart", "napEnd"} /\ index \in 0..(Len(schedule.naps) - 1)
  /\ dragging' = Drag(type, index, -1)
  /\ last' = Event("mouseDown", NoDrag, -1, NoSchedule)
  /\ UNCHANGED <<variant, ageMonths, numNaps, wakeTime, showSchedule, schedule, crashed, steps>>

HandleMouseMoveShift(y) ==
  /\ variant = "shift" /\ ~crashed /\ steps < MaxSteps
  /\ dragging # NoDrag
  /\ IF updaterThrowsShift(schedule, dragging)
     THEN /\ crashed' = TRUE
          /\ last' = Event("throw", dragging, pointerMinutesShift(y), schedule)
          /\ UNCHANGED <<schedule, steps>>
     ELSE /\ schedule' = scheduleUpdaterShift(schedule, dragging, pointerMinutesShift(y))
          /\ steps' = steps + 1
          /\ last' = Event("drag", dragging, pointerMinutesShift(y), schedule)
          /\ UNCHANGED crashed
  /\ UNCHANGED <<variant, ageMonths, numNaps, wakeTime, showSchedule, dragging>>

HandleMouseUpShift ==
  /\ variant = "shift" /\ ~crashed
  /\ dragging # NoDrag
  /\ dragging' = NoDrag
  /\ last' = Event("mouseUp", NoDrag, -1, NoSchedule)
  /\ UNCHANGED <<variant, ageMonths, numNaps, wakeTime, showSchedule, schedule, crashed, steps>>

DragTypes == {"wake", "bedtime", "napStart", "napEnd"}

NextShift ==
  \/ \E age \in AgeInputs : SelectAgeShift(age)
  \/ \E n \in NapOptions : SelectNapsShift(n)
  \/ \E type \in DragTypes : \E index \in -1..(Len(schedule.naps) - 1) :
       MouseDownShift(type, index)
  \/ \E y \in PointerYs : HandleMouseMoveShift(y)
  \/ HandleMouseUpShift

SpecShift == InitShift /\ [][NextShift]_vars

(***************************************************************************)
(* src/unnamed/part_002: the revision with an input form.                  *)
(***************************************************************************)
\* A string is the sequence of its characters.
Digits == <<"0", "1", "2", "3", "4", "5", "6", "7", "8", "9">>

\* JavaScript a % b for b > 0: the remainder has the sign of a
JsRem(a, b) == IF a >= 0 THEN a % b ELSE 0 - ((0 - a) % b)

\* n.toString() of an integer n >= 0
RECURSIVE toString(_)
toString(n) ==
  IF n < 10 THEN <<Digits[n + 1]>>
  ELSE toString(n \div 10) \o <<Digits[(n % 10) + 1]>>

\* str.padStart(2, "0")
RECURSIVE padStart2(_)
padStart2(str) == IF Len(str) >= 2 THEN str ELSE padStart2(<<"0">> \o str)

\* the value of an <input type="time"> showing hours h and minutes m: "HH:MM"
timeInputValue(h, m) == padStart2(toString(h)) \o <<":">> \o padStart2(toString(m))

\* str.split(sep), from the state (rest of the string, piece being read,
\* pieces read)
RECURSIVE splitLoop(_, _, _, _)
splitLoop(rest, sep, piece, pieces) ==
  IF rest = <<>> THEN Append(pieces, piece)
  ELSE IF Head(rest) = sep
    THEN splitLoop(Tail(rest), sep, <<>>, Append(pieces, piece))
  ELSE splitLoop(Tail(rest), sep, Append(piece, Head(rest)), pieces)

split(str, sep) == splitLoop(str, sep, <<>>, <<>>)

\* the result of Number and of arithmetic that is not a number
NaN == -1440

RECURSIVE trimStart(_)
trimStart(str) ==
  IF str # <<>> /\ Head(str) = " " THEN trimStart(Tail(str)) ELSE str

RECURSIVE trimEnd(_)
trimEnd(str) ==
  IF str # <<>> /\ str[Len(str)] = " "
  THEN trimEnd(SubSeq(str, 1, Len(str) - 1)) ELSE str

RECURSIVE decimalValue(_, _)
decimalValue(str, acc) ==
  IF str = <<>> THEN acc
  ELSE decimalValue(Tail(str),
         acc * 10 + (CHOOSE d \in 0..9 : Digits[d + 1] = Head(str)))

\* Number(str) for a string of digits, letters, spaces and colons: white
\* space around the text is dropped, the empty text is 0, a text of decimal
\* digits is its value, and any other text is NaN
Number(str) ==
  LET text == trimEnd(trimStart(str))
  IN  IF text = <<>> THEN 0
      ELSE IF \A k \in 1..Len(text) : \E d \in 1..10 : Digits[d] = text[k]
        THEN decimalValue(text, 0)
      ELSE NaN

\* parseTime: a missing second piece is undefined, and a sum with undefined
\* or NaN is NaN
parseTime(time) ==
  LET pieces == split(time, ":")
      hours == Number(pieces[1])
      mins == IF Len(pieces) >= 2 THEN Number(pieces[2]) ELSE NaN
  IN  IF hours = NaN \/ mins = NaN THEN NaN ELSE hours * 60 + mins

\* faulty formatTime: the AM/PM suffix is left out
formatTimeNoPeriod(minutes) ==
  LET normalizedMinutes == (JsRem(minutes, 1440) + 1440) % 1440
      hours == normalizedMinutes \div 60
      mins == normalizedMinutes % 60
      displayHours == IF hours = 0 THEN 12
                      ELSE IF hours > 12 THEN hours - 12 ELSE hours
  IN  toString(displayHours) \o <<":">> \o padStart2(toString(mins))

\* formatTime (the same text in part_001, part_002 and part_004)
formatTime(minutes) ==
  LET normalizedMinutes == (JsRem(minutes, 1440) + 1440) % 1440
      hours == normalizedMinutes \div 60
      mins == normalizedMinutes % 60
      period == IF hours >= 12 THEN <<"P", "M">> ELSE <<"A", "M">>
      displayHours == IF hours = 0 THEN 12
                      ELSE IF hours > 12 THEN hours - 12 ELSE hours
  IN  toString(displayHours) \o <<":">> \o padStart2(toString(mins))
        \o <<" ">> \o period

generateInitialSchedule(age, totalNaps, wakeTimeMinutes) ==
  LET awakeWindow == getAwakeWindowFixed(age)
      loop == generateLoop(awakeWindow, age, totalNaps, 1, wakeTimeMinutes, <<>>)
  IN  [wakeTime |-> wakeTimeMinutes,
       naps |-> loop.naps,
       bedtime |-> loop.currentTime + awakeWindow]

\* the timeline of part_002 follows the schedule
timelineStartForm(s) == Min(s.wakeTime - 60, 300)

timelineEndForm(s) == Max(s.bedtime + 60, 1380)

pointerMinutesForm(s, y) ==
  snap5(percentToMinutes(y, timelineStartForm(s), timelineEndForm(s) - timelineStartForm(s)))

napStartStepForm(prev, index, minutes) ==
  LET nap == napAt(prev, index)
      minStart == IF index = 0
                  THEN prev.wakeTime + 15
                  ELSE napAt(prev, index - 1).endMinutes + 15
      maxStart == nap.endMinutes - 15
  IN  withNap(prev, index,
        [nap EXCEPT !.startMinutes = Max(minStart, Min(maxStart, minutes))])

\* faulty napEnd branch of part_002: the gap to the next boundary is forgotten
napEndStepFormNoGap(prev, index, minutes) ==
  LET nap == napAt(prev, index)
      minEnd == nap.startMinutes + 15
      maxEnd == IF index < Len(prev.naps) - 1
                THEN napAt(prev, index + 1).startMinutes
                ELSE prev.bedtime
  IN  withNap(prev, index,
        [nap EXCEPT !.endMinutes = Max(minEnd, Min(maxEnd, minutes))])

napEndStepForm(prev, index, minutes) ==
  LET nap == napAt(prev, index)
      minEnd == nap.startMinutes + 15
      maxEnd == IF index < Len(prev.naps) - 1
                THEN napAt(prev, index + 1).startMinutes - 15
                ELSE prev.bedtime - 15
  IN  withNap(prev, index,
        [nap EXCEPT !.endMinutes = Max(minEnd, Min(maxEnd, minutes))])

bedtimeStepForm(prev, minutes) ==
  LET minBedtime == IF Len(prev.naps) > 0
                    THEN napAt(prev, Len(prev.naps) - 1).endMinutes + 15
                    ELSE prev.wakeTime + 60
  IN  [prev EXCEPT !.bedtime = Max(minBedtime, minutes)]

scheduleUpdaterForm(prev, drag, minutes) ==
  IF drag.type = "wake" THEN wakeShiftStep(prev, minutes)
  ELSE IF drag.type = "napStart" /\ drag.index # -1
    THEN napStartStepForm(prev, drag.index, minutes)
  ELSE IF drag.type = "napEnd" /\ drag.index # -1
    THEN napEndStepForm(prev, drag.index, minutes)
  ELSE IF drag.type = "bedtime" THEN bedtimeStepForm(prev, minutes)
  ELSE prev

\* the number input of the form takes 0..24
AgeRangeForm == 0..24

\* the ages typed in a run: both ends and the first age of every band
AgeInputsForm == {0, 3, 6, 9, 24}

\* the wake times typed in a run
WakeInputs ==
  { timeInputValue(5, 0), timeInputValue(6, 30), timeInputValue(7, 45),
    timeInputValue(11, 0) }

InitForm ==
  /\ variant = "form"
  /\ ageMonths = 4
  /\ numNaps = 3
  /\ wakeTime = timeInputValue(6, 30)
  /\ showSchedule = FALSE
  /\ schedule = NoSchedule
  /\ dragging = NoDrag
  /\ crashed = FALSE
  /\ steps = 0
  /\ last = Event("mount", NoDrag, -1, NoSchedule)

\* onChange of the age input, with the effect that follows it:
\* setNumNaps(getSuggestedNaps(ageMonths))
SetAgeMonthsForm(age) ==
  /\ variant = "form" /\ ~crashed /\ steps < MaxSteps
  /\ ~showSchedule
  /\ age \in AgeRangeForm /\ age # ageMonths
  /\ ageMonths' = age
  /\ numNaps' = getSuggestedNaps(age)
  /\ steps' = steps + 1
  /\ last' = Event("setAge", NoDrag, -1, NoSchedule)
  /\ UNCHANGED <<variant, wakeTime, showSchedule, schedule, dragging, crashed>>

SetNumNapsForm(n) ==
  /\ variant = "form" /\ ~crashed /\ steps < MaxSteps
  /\ ~showSchedule
  /\ n \in NapOptions /\ n # numNaps
  /\ numNaps' = n
  /\ steps' = steps + 1
  /\ last' = Event("setNaps", NoDrag, -1, NoSchedule)
  /\ UNCHANGED <<variant, ageMonths, wakeTime, showSchedule, schedule, dragging, crashed>>

SetWakeTimeForm(time) ==
  /\ variant = "form" /\ ~crashed /\ steps < MaxSteps
  /\ ~showSchedule
  /\ time # wakeTime
  /\ wakeTime' = time
  /\ steps' = steps + 1
  /\ last' = Event("setWake", NoDrag, -1, NoSchedule)
  /\ UNCHANGED <<variant, ageMonths, numNaps, showSchedule, schedule, dragging, crashed>>

HandleSubmit ==
  /\ variant = "form" /\ ~crashed
  /\ ~showSchedule
  /\ schedule' = generateInitialSchedule(ageMonths, numNaps, parseTime(wakeTime))
  /\ showSchedule' = TRUE
  /\ last' = Event("submit", NoDrag, -1, NoSchedule)
  /\ UNCHANGED <<variant, ageMonths, numNaps, wakeTime, dragging, crashed, steps>>

HandleReset ==
  /\ variant = "form" /\ ~crashed
  /\ showSchedule
  /\ showSchedule' = FALSE
  /\ schedule' = NoSchedule
  /\ last' = Event("reset", NoDrag, -1, schedule)
  /\ UNCHANGED <<variant, ageMonths, numNaps, wakeTime, dragging, crashed, steps>>

MouseDownForm(type, index) ==
  /\ variant = "form" /\ ~crashed /\ steps < MaxSteps
  /\ showSchedule
  /\ \/ type \in {"wake", "bedtime"} /\ index = -1
     \/ type \in {"napStart", "napEnd"} /\ index \in 0..(Len(schedule.naps) - 1)
  /\ dragging' = Drag(type, index, -1)
  /\ last' = Event("mouseDown", NoDrag, -1, NoSchedule)
  /\ UNCHANGED <<variant, ageMonths, numNaps, wakeTime, showSchedule, schedule, crashed, steps>>

\* handleMouseMove returns at once when there is no timeline or no schedule
HandleMouseMoveForm(y) ==
  /\ variant = "form" /\ ~crashed /\ steps < MaxSteps
  /\ dragging # NoDrag
  /\ showSchedule
  /\ IF updaterThrowsShift(schedule, dragging)
     THEN /\ crashed' = TRUE
          /\ last' = Event("throw", dragging, pointerMinutesForm(schedule, y), schedule)
          /\ UNCHANGED <<schedule, steps>>
     ELSE /\ schedule' = scheduleUpdaterForm(schedule, dragging, pointerMinutesForm(schedule, y))
          /\ steps' = steps + 1
          /\ last' = Event("drag", dragging, pointerMinutesForm(schedule, y), schedule)
          /\ UNCHANGED crashed
  /\ UNCHANGED <<variant, ageMonths, numNaps, wakeTime, showSchedule, dragging>>

HandleMouseUpForm ==
  /\ variant = "form" /\ ~crashed
  /\ dragging # NoDrag
  /\ dragging' = NoDrag
  /\ last' = Event("mouseUp", NoDrag, -1, NoSchedule)
  /\ UNCHANGED <<variant, ageMonths, numNaps, wakeTime, showSchedule, schedule, crashed, steps>>

NextForm ==
  \/ \E age \in AgeInputsForm : SetAgeMonthsForm(age)
  \/ \E n \in NapOptions : SetNumNapsForm(n)
  \/ \E time \in WakeInputs : SetWakeTimeForm(time)
  \/ HandleSubmit
  \/ HandleReset
  \/ \E type \in DragTypes : \E index \in -1..(Len(schedule.naps) - 1) :
       MouseDownForm(type, index)
  \/ \E y \in PointerYs : HandleMouseMoveForm(y)
  \/ HandleMouseUpForm

SpecForm == InitForm /\ [][NextForm]_vars

(***************************************************************************)
(* src/unnamed/part_004, lines 365-603: the revision with an input form    *)
(* and one range slider per event.  Its schedule is a list of events       *)
(* (wake, the start of every nap, bedtime): the empty list before the      *)
(* first submit.                                                           *)
(***************************************************************************)
\* the for loop of generateInitialSchedule, from iteration i on: the state
\* of the loop is (currentTime, schedule)
RECURSIVE generateLoopSlider(_, _, _, _, _, _)
generateLoopSlider(awakeWindow, age, totalNaps, i, currentTime, items) ==
  IF i > totalNaps THEN [currentTime |-> currentTime, schedule |-> items]
  ELSE LET napStart == currentTime + awakeWindow
           napLabel == IF totalNaps = 1 THEN <<"N", "a", "p">>
                       ELSE <<"N", "a", "p", " ">> \o toString(i)
       IN  generateLoopSlider(awakeWindow, age, totalNaps, i + 1,
             napStart + getNapDuration(age, i, totalNaps),
             Append(items, [minutes |-> napStart, label |-> napLabel,
                            type |-> "nap"]))

generateInitialScheduleSlider(age, totalNaps, wakeTimeMinutes) ==
  LET awakeWindow == getAwakeWindowFixed(age)
      loop == generateLoopSlider(awakeWindow, age, totalNaps, 1, wakeTimeMinutes,
                << [minutes |-> wakeTimeMinutes,
                    label |-> <<"W", "a", "k", "e", " ", "u", "p">>,
                    type |-> "wake"] >>)
  IN  Append(loop.schedule,
             [minutes |-> loop.currentTime + awakeWindow,
              label |-> <<"B", "e", "d", "t", "i", "m", "e">>,
              type |-> "bedtime"])

sliderMin == 300

sliderMax == 1320

\* the positions a slider is put at in a run: from sliderMin to sliderMax,
\* SliderStep minutes apart (the slider itself moves in steps of 5)
SliderValues ==
  { sliderMin + k * SliderStep : k \in 0..((sliderMax - sliderMin) \div SliderStep) }

\* the setSchedule updater of handleTimeChange: the event and every event
\* after it move by the same amount
timeChangeUpdater(prev, index, newMinutes) ==
  LET delta == newMinutes - prev[index + 1].minutes
  IN  [i \in 1..Len(prev) |->
         [prev[i] EXCEPT !.minutes =
            IF i - 1 >= index THEN prev[i].minutes + delta ELSE prev[i].minutes]]

InitSlider ==
  /\ variant = "slider"
  /\ ageMonths = 4
  /\ numNaps = 3
  /\ wakeTime = timeInputValue(6, 30)
  /\ showSchedule = FALSE
  /\ schedule = <<>>
  /\ dragging = NoDrag
  /\ crashed = FALSE
  /\ steps = 0
  /\ last = Event("mount", NoDrag, -1, <<>>)

\* onChange of the age input, with the effect that follows it
SetAgeMonthsSlider(age) ==
  /\ variant = "slider" /\ steps < MaxSteps
  /\ ~showSchedule
  /\ age \in AgeRangeForm /\ age # ageMonths
  /\ ageMonths' = age
  /\ numNaps' = getSuggestedNaps(age)
  /\ steps' = steps + 1
  /\ last' = Event("setAge", NoDrag, -1, <<>>)
  /\ UNCHANGED <<variant, wakeTime, showSchedule, schedule, dragging, crashed>>

SetNumNapsSlider(n) ==
  /\ variant = "slider" /\ steps < MaxSteps
  /\ ~showSchedule
  /\ n \in NapOptions /\ n # numNaps
  /\ numNaps' = n
  /\ steps' = steps + 1
  /\ last' = Event("setNaps", NoDrag, -1, <<>>)
  /\ UNCHANGED <<variant, ageMonths, wakeTime, showSchedule, schedule, dragging, crashed>>

SetWakeTimeSlider(time) ==
  /\ variant = "slider" /\ steps < MaxSteps
  /\ ~showSchedule
  /\ time # wakeTime
  /\ wakeTime' = time
  /\ steps' = steps + 1
  /\ last' = Event("setWake", NoDrag, -1, <<>>)
  /\ UNCHANGED <<variant, ageMonths, numNaps, showSchedule, schedule, dragging, crashed>>

HandleSubmitSlider ==
  /\ variant = "slider"
  /\ ~showSchedule
  /\ schedule' = generateInitialScheduleSlider(ageMonths, numNaps, parseTime(wakeTime))
  /\ showSchedule' = TRUE
  /\ last' = Event("submit", NoDrag, -1, schedule)
  /\ UNCHANGED <<variant, ageMonths, numNaps, wakeTime, dragging, crashed, steps>>

\* faulty handleReset: the list is emptied
HandleResetSliderDiscards ==
  /\ variant = "slider"
  /\ showSchedule
  /\ showSchedule' = FALSE
  /\ schedule' = <<>>
  /\ last' = Event("reset", NoDrag, -1, schedule)
  /\ UNCHANGED <<variant, ageMonths, numNaps, wakeTime, dragging, crashed, steps>>

\* handleReset: setShowSchedule(false) and nothing else
HandleResetSlider ==
  /\ variant = "slider"
  /\ showSchedule
  /\ showSchedule' = FALSE
  /\ last' = Event("reset", NoDrag, -1, schedule)
  /\ UNCHANGED <<variant, ageMonths, numNaps, wakeTime, schedule, dragging, crashed, steps>>

\* onChange of the slider of event `index` (from 0): the slider shows the
\* event's minutes kept within sliderMin..sliderMax and reports a change of
\* that value
HandleTimeChange(index, newMinutes) ==
  /\ variant = "slider" /\ steps < MaxSteps
  /\ showSchedule
  /\ index \in 0..(Len(schedule) - 1)
  /\ newMinutes # Max(sliderMin, Min(sliderMax, schedule[index + 1].minutes))
  /\ schedule' = timeChangeUpdater(schedule, index, newMinutes)
  /\ steps' = steps + 1
  /\ last' = Event("slide", Drag("slider", index, -1), newMinutes, schedule)
  /\ UNCHANGED <<variant, ageMonths, numNaps, wakeTime, showSchedule, dragging, crashed>>

NextSlider ==
  \/ \E age \in AgeInputsForm : SetAgeMonthsSlider(age)
  \/ \E n \in NapOptions : SetNumNapsSlider(n)
  \/ \E time \in WakeInputs : SetWakeTimeSlider(time)
  \/ HandleSubmitSlider
  \/ HandleResetSlider
  \/ \E index \in 0..(Len(schedule) - 1) : \E newMinutes \in SliderValues :
       HandleTimeChange(index, newMinutes)

SpecSlider == InitSlider /\ [][NextSlider]_vars

\* the two revisions with an input form
NextForms ==
  \/ variant = "form" /\ NextForm
  \/ variant = "slider" /\ NextSlider

SpecForms == (InitForm \/ InitSlider) /\ [][NextForms]_vars

(***************************************************************************)
(* generateSchedule of src/src/app/page.tsx as a function of its inputs.   *)
(***************************************************************************)
\* the ages the generator is given
AgeRange == 0..24

\* the wake times the generator is given
WakeRange == { 5 * k : k \in 0..MaxWakeSlot }

InitGen ==
  /\ variant = "gen"
  /\ ageMonths \in AgeRange
  /\ numNaps \in NapOptions
  /\ wakeTime = NoTime
  /\ showSchedule = FALSE
  /\ schedule = NoSchedule
  /\ dragging = NoDrag
  /\ crashed = FALSE
  /\ steps = 0
  /\ \E wake \in WakeRange : last = Event("input", NoDrag, wake, NoSchedule)

\* the call generateSchedule(ageMonths, numNaps, wake)
Generate ==
  /\ variant = "gen" /\ steps = 0
  /\ schedule' = generateSchedule(ageMonths, numNaps, last.minutes)
  /\ showSchedule' = TRUE
  /\ steps' = 1
  /\ last' = Event("generate", NoDrag, last.minutes, NoSchedule)
  /\ UNCHANGED <<variant, ageMonths, numNaps, wakeTime, dragging, crashed>>

NextGen == Generate

SpecGen == InitGen /\ [][NextGen]_vars

(***************************************************************************)
(* formatTime and parseTime of src/unnamed/part_002 (and part_001) as      *)
(* functions of their inputs: a minute offset is formatted and the string  *)
(* is parsed.  The string is held in wakeTime and the parsed value in      *)
(* schedule.wakeTime.                                                      *)
(***************************************************************************)
\* the minute offsets given to formatTime
MinuteRange == (0 - MaxMinute)..MaxMinute

InitFmt ==
  /\ variant = "fmt"
  /\ ageMonths = 0
  /\ numNaps = 0
  /\ wakeTime = NoTime
  /\ showSchedule = FALSE
  /\ schedule = NoSchedule
  /\ dragging = NoDrag
  /\ crashed = FALSE
  /\ steps = 0
  /\ \E m \in MinuteRange : last = Event("input", NoDrag, m, NoSchedule)

\* the call formatTime(m)
Format ==
  /\ variant = "fmt" /\ steps = 0
  /\ wakeTime' = formatTime(last.minutes)
  /\ steps' = 1
  /\ last' = Event("format", NoDrag, last.minutes, NoSchedule)
  /\ UNCHANGED <<variant, ageMonths, numNaps, showSchedule, schedule, dragging, crashed>>

\* the call parseTime(string)
Parse ==
  /\ variant = "fmt" /\ steps = 1
  /\ schedule' = [NoSchedule EXCEPT !.wakeTime = parseTime(wakeTime)]
  /\ steps' = 2
  /\ last' = Event("parse", NoDrag, last.minutes, NoSchedule)
  /\ UNCHANGED <<variant, ageMonths, numNaps, wakeTime, showSchedule, dragging, crashed>>

NextFmt == Format \/ Parse

SpecFmt == InitFmt /\ [][NextFmt]_vars

(***************************************************************************)
(* src/unnamed/part_001 (lib/schedule.ts): the generator that returns a    *)
(* list of labelled events with formatted times.  getNapDuration is the    *)
(* same text as in src/src/app/page.tsx.                                   *)
(***************************************************************************)
\* AWAKE_WINDOWS looked up by getAwakeWindow of the lib
getAwakeWindowLib(age) ==
  IF age < 3 THEN [min |-> 45, max |-> 60]
  ELSE IF age < 6 THEN [min |-> 90, max |-> 150]
  ELSE IF age < 9 THEN [min |-> 120, max |-> 180]
  ELSE [min |-> 180, max |-> 240]

\* const avgAwakeWindow = Math.round((awakeWindow.min + awakeWindow.max) / 2)
avgAwakeWindow(age) ==
  LET awakeWindow == getAwakeWindowLib(age)
  IN  MathRound(awakeWindow.min + awakeWindow.max, 2)

\* the for loop of the lib's generateSchedule, from iteration i on: the
\* state of the loop is (currentTime, schedule)
RECURSIVE generateLoopLib(_, _, _, _, _, _)
generateLoopLib(avg, age, totalNaps, i, currentTime, events) ==
  IF i > totalNaps THEN [currentTime |-> currentTime, schedule |-> events]
  ELSE LET napStart == currentTime + avg
           napLabel == IF totalNaps = 1 THEN <<"N", "a", "p">>
                       ELSE <<"N", "a", "p", " ">> \o toString(i)
       IN  generateLoopLib(avg, age, totalNaps, i + 1,
             napStart + getNapDuration(age, i, totalNaps),
             Append(events, [time |-> formatTime(napStart),
                             label |-> napLabel, type |-> "nap"]))

\* generateSchedule of the lib; input.wakeTime is an "HH:MM" string
generateScheduleLib(input) ==
  LET avg == avgAwakeWindow(input.ageMonths)
      wake == parseTime(input.wakeTime)
      loop == generateLoopLib(avg, input.ageMonths, input.numNaps, 1, wake,
                << [time |-> formatTime(wake),
                    label |-> <<"W", "a", "k", "e", " ", "u", "p">>,
                    type |-> "wake"] >>)
  IN  Append(loop.schedule,
             [time |-> formatTime(loop.currentTime + avg),
              label |-> <<"B", "e", "d", "t", "i", "m", "e">>,
              type |-> "bedtime"])

(***************************************************************************)
(* The generators of every revision as functions of the same inputs: an    *)
(* age, a nap count and an "HH:MM" wake time.  last.op names the generator *)
(* that produced schedule.                                                 *)
(***************************************************************************)
InitWin ==
  /\ variant = "win"
  /\ ageMonths \in AgeRange
  /\ numNaps \in NapOptions
  /\ wakeTime \in WakeInputs
  /\ showSchedule = FALSE
  /\ schedule = NoSchedule
  /\ dragging = NoDrag
  /\ crashed = FALSE
  /\ steps = 0
  /\ last = Event("input", NoDrag, -1, NoSchedule)

\* what a call of one generator leaves
Generated(op, result) ==
  /\ variant = "win" /\ steps = 0
  /\ schedule' = result
  /\ showSchedule' = TRUE
  /\ steps' = 1
  /\ last' = Event(op, NoDrag, parseTime(wakeTime), NoSchedule)
  /\ UNCHANGED <<variant, ageMonths, numNaps, wakeTime, dragging, crashed>>

GeneratePage ==
  Generated("page", generateSchedule(ageMonths, numNaps, parseTime(wakeTime)))

GenerateShift ==
  Generated("shift", generateScheduleShift(ageMonths, numNaps, parseTime(wakeTime)))

GenerateForm ==
  Generated("form", generateInitialSchedule(ageMonths, numNaps, parseTime(wakeTime)))

GenerateLib ==
  Generated("lib", generateScheduleLib(
    [ageMonths |-> ageMonths, numNaps |-> numNaps, wakeTime |-> wakeTime]))

NextWin == GeneratePage \/ GenerateShift \/ GenerateForm \/ GenerateLib

SpecWin == InitWin /\ [][NextWin]_vars

(***************************************************************************)
(* The setSchedule updater of handleMouseMove of src/src/app/page.tsx as a *)
(* function of its inputs: a schedule that satisfies the ordering and gap  *)
(* invariant, a dragging state and a pointer value.                        *)
(***************************************************************************)
\* the schedule with the given wake time and the given gaps between its
\* boundaries: gaps[2i - 1] before nap i, gaps[2i] inside it, the last one
\* before bedtime
RECURSIVE napsFromGaps(_, _)
napsFromGaps(from, gaps) ==
  IF Len(gaps) < 2 THEN <<>>
  ELSE << [startMinutes |-> from + gaps[1],
           endMinutes |-> from + gaps[1] + gaps[2]] >>
       \o napsFromGaps(from + gaps[1] + gaps[2], Tail(Tail(gaps)))

RECURSIVE sumSeq(_)
sumSeq(seq) == IF seq = <<>> THEN 0 ELSE Head(seq) + sumSeq(Tail(seq))

scheduleFromGaps(wake, gaps) ==
  [wakeTime |-> wake, bedtime |-> wake + sumSeq(gaps),
   naps |-> napsFromGaps(wake, gaps)]

\* the schedules given to the updater: 1 to MaxNapsInd naps, every gap the
\* least the invariant allows (30 between sleeps, 15 inside a nap) or
\* GapSlack minutes more
SchedulesInd ==
  UNION { { scheduleFromGaps(10 * 60,
              [k \in 1..(2 * n + 1) |->
                 (IF k % 2 = 0 THEN 15 ELSE 30) + slack[k]]) :
            slack \in [1..(2 * n + 1) -> {0, GapSlack}] } :
          n \in 1..MaxNapsInd }

\* the pointer values given to the updater for schedule s: the 5-minute grid
\* from 15 minutes before its wake time to 15 minutes after its bedtime
PointerMinutesInd(s) ==
  { m \in (s.wakeTime - 15)..(s.bedtime + 15) : m % 5 = 0 }

InitInd ==
  /\ variant = "ind"
  /\ ageMonths = 6
  /\ numNaps \in 1..MaxNapsInd
  /\ wakeTime = NoTime
  /\ showSchedule = TRUE
  /\ schedule \in { s \in SchedulesInd : Len(s.naps) = numNaps }
  /\ dragging \in DragsOf(schedule)
  /\ crashed = FALSE
  /\ steps = 0
  /\ last = Event("mouseDown", NoDrag, -1, NoSchedule)

\* one run of the updater
UpdaterStep(minutes) ==
  /\ variant = "ind" /\ steps = 0
  /\ minutes \in PointerMinutesInd(schedule)
  /\ schedule' = scheduleUpdater(schedule, dragging, minutes)
  /\ steps' = 1
  /\ last' = Event("drag", dragging, minutes, schedule)
  /\ UNCHANGED <<variant, ageMonths, numNaps, wakeTime, showSchedule, dragging, crashed>>

NextInd == \E minutes \in PointerMinutesInd(schedule) : UpdaterStep(minutes)

SpecInd == InitInd /\ [][NextInd]_vars

\* the running page and the updater on its own
NextPageInd ==
  \/ variant = "page" /\ NextPage
  \/ variant = "ind" /\ NextInd

SpecPageInd == (InitPage \/ InitInd) /\ [][NextPageInd]_vars

(***************************************************************************)
(* src/src/app/page.tsx with its two selects already set: the page after   *)
(* an age and a nap count were selected from the initial state, the wake   *)
(* marker not yet moved, and the drags made from there.                    *)
(***************************************************************************)
\* getNightSleep: the time from bedtime to wake-up
getNightSleep(s) ==
  LET duration == s.wakeTime - s.bedtime
  IN  IF duration < 0 THEN duration + 24 * 60 ELSE duration

InitPageSelected ==
  /\ variant = "page"
  /\ ageMonths \in AgeInputs
  /\ numNaps \in NapOptions
  /\ wakeTime = NoTime
  /\ showSchedule = TRUE
  /\ schedule = generateSchedule(ageMonths, numNaps, 7 * 60 + 30)
  /\ dragging = NoDrag
  /\ crashed = FALSE
  /\ steps = 0
  /\ last = Event("selected", NoDrag, -1, NoSchedule)

NextPageDrags ==
  \/ MouseDownWake
  \/ MouseDownBedtime
  \/ \E index \in 0..(Len(schedule.naps) - 1) :
       \E clickY \in ClickYs(schedule, index) : MouseDownNap(index, clickY)
  \/ \E y \in PointerYs : HandleMouseMove(y)
  \/ HandleMouseUp

SpecPageSelected == InitPageSelected /\ [][NextPageDrags]_vars

(***************************************************************************)
(* src/unnamed/part_003: the clock-face revision.  Its schedule holds a    *)
(* bedtime and a wake time only, each on a handle of a 24-hour dial.       *)
(* Angles are counted in tenths of a degree, so that no conversion below   *)
(* meets a half and floating-point rounding cannot change a result.        *)
(***************************************************************************)
\* d degrees
Degrees(d) == 10 * d

\* (Math.atan2(y, x) * 180) / Math.PI for the pointer positions of a run:
\* the compass points, and directions AngleStep tenths of a degree apart,
\* counted from half a degree to the left of straight up
PointerAngles ==
  { 0 - Degrees(90), 0, Degrees(90), Degrees(180) } \cup
  { a \in { k * AngleStep - Degrees(90) - 5 :
              k \in (0 - Degrees(360) \div AngleStep)..(Degrees(360) \div AngleStep) } :
      a > 0 - Degrees(180) /\ a <= Degrees(180) }

\* let angle = atan2 + 90; if (angle < 0) angle += 360
pointerAngle(atan2) ==
  LET angle == atan2 + Degrees(90)
  IN  IF angle < 0 THEN angle + Degrees(360) ELSE angle

\* angleToMinutes: Math.round((normalized / 360) * 24 * 60)
angleToMinutes(angle) ==
  LET normalized == (JsRem(angle, Degrees(360)) + Degrees(360)) % Degrees(360)
  IN  MathRound(normalized * 24 * 60, Degrees(360))

\* the minute value handleMouseMove derives from a pointer direction
pointerMinutesClock(atan2) == snap5(angleToMinutes(pointerAngle(atan2)))

\* the setSchedule updater of handleMouseMove
scheduleUpdaterClock(prev, drag, minutes) ==
  IF drag.type = "bedtime" THEN [prev EXCEPT !.bedtime = minutes]
  ELSE [prev EXCEPT !.wakeTime = minutes]

InitClock ==
  /\ variant = "clock"
  /\ ageMonths = 0
  /\ numNaps = 0
  /\ wakeTime = NoTime
  /\ showSchedule = TRUE
  /\ schedule = [bedtime |-> 19 * 60 + 30, wakeTime |-> 6 * 60]
  /\ dragging = NoDrag
  /\ crashed = FALSE
  /\ steps = 0
  /\ last = Event("mount", NoDrag, -1, NoSchedule)

\* onMouseDown of the bedtime handle and of the wake handle
MouseDownClock(type) ==
  /\ variant = "clock" /\ steps < MaxSteps
  /\ type \in {"bedtime", "wake"}
  /\ dragging' = Drag(type, -1, -1)
  /\ last' = Event("mouseDown", NoDrag, -1, NoSchedule)
  /\ UNCHANGED <<variant, ageMonths, numNaps, wakeTime, showSchedule, schedule, crashed, steps>>

\* handleMouseMove, registered on window while dragging is not null
HandleMouseMoveClock(atan2) ==
  /\ variant = "clock" /\ steps < MaxSteps
  /\ dragging # NoDrag
  /\ schedule' = scheduleUpdaterClock(schedule, dragging, pointerMinutesClock(atan2))
  /\ steps' = steps + 1
  /\ last' = Event("drag", dragging, pointerMinutesClock(atan2), schedule)
  /\ UNCHANGED <<variant, ageMonths, numNaps, wakeTime, showSchedule, dragging, crashed>>

HandleMouseUpClock ==
  /\ variant = "clock"
  /\ dragging # NoDrag
  /\ dragging' = NoDrag
  /\ last' = Event("mouseUp", NoDrag, -1, NoSchedule)
  /\ UNCHANGED <<variant, ageMonths, numNaps, wakeTime, showSchedule, schedule, crashed, steps>>

NextClock ==
  \/ \E type \in {"bedtime", "wake"} : MouseDownClock(type)
  \/ \E atan2 \in PointerAngles : HandleMouseMoveClock(atan2)
  \/ HandleMouseUpClock

SpecClock == InitClock /\ [][NextClock]_vars

(***************************************************************************)
(* Every revision.                                                         *)
(***************************************************************************)
Init == InitPage \/ InitShift \/ InitForm

Next == NextPage \/ NextShift \/ NextForm

Spec == Init /\ [][Next]_vars

\* the revisions with a rigid-shift wake drag
SpecRigid == (InitShift \/ InitForm) /\ [][NextShift \/ NextForm]_vars

\* the revisions the bedtime claim names
SpecPageForm == (InitPage \/ InitForm) /\ [][NextPage \/ NextForm]_vars

(***************************************************************************)
(* Properties.                                                             *)
(***************************************************************************)
\* the boundaries of a schedule in order: wake, start and end of every nap,
\* bedtime
RECURSIVE napBoundaries(_)
napBoundaries(naps) ==
  IF naps = <<>> THEN <<>>
  ELSE <<Head(naps).startMinutes, Head(naps).endMinutes>> \o napBoundaries(Tail(naps))

Boundaries(s) == <<s.wakeTime>> \o napBoundaries(s.naps) \o <<s.bedtime>>

StrictlyIncreasing(s) ==
  LET b == Boundaries(s)
  IN  \A k \in 1..(Len(b) - 1) : b[k] < b[k + 1]

\* the ordering and minimum-gap invariant with gap g between sleeps and 15
\* minutes inside a nap
OrderedWithGaps(s, g) ==
  LET b == Boundaries(s)
  IN  \A k \in 1..(Len(b) - 1) :
        b[k] + (IF k % 2 = 0 THEN 15 ELSE g) <= b[k + 1]

\* the boundary before nap `index` (from 0) and the one after it
PrevBoundary(s, index) ==
  IF index = 0 THEN s.wakeTime ELSE s.naps[index].endMinutes

NextBoundary(s, index) ==
  IF index < Len(s.naps) - 1 THEN s.naps[index + 2].startMinutes ELSE s.bedtime

\* the state right after a generation in the running page
Regenerated == last.op \in {"mount", "selectAge", "selectNaps"}

\* the state right after a drag step of the given type
Dragged(type) == last.op = "drag" /\ last.drag.type = type

\* C1: for every age, nap count and wake time generateSchedule returns a
\* schedule whose boundaries are strictly increasing, bedtime included.
\* (The 22:00 ceiling puts bedtime before the last nap: false of the code.)
C1_GeneratedStrictlyIncreasing ==
  (variant = "page" /\ Regenerated) => StrictlyIncreasing(schedule)

\* C2: every schedule reachable in page.tsx by selections and drag steps
\* satisfies the ordering and minimum-gap invariant with gap 30.
\* (False of the code, through the generated bedtime of C1.)
C2_ReachableOrderedWithGaps ==
  variant = "page" => OrderedWithGaps(schedule, 30)

\* C3: generateSchedule walks forward from the wake time: every nap starts
\* one awake window after the boundary before it and lasts
\* getNapDuration(age, i, numNaps), 30 minutes for the final nap and one
\* longer constant for every earlier nap; generate(6, 3, 450) gives naps
\* [600,675], [825,900], [1050,1080] and bedtime 1230.
C3_WalksForward ==
  (variant = "gen" /\ last.op = "generate") =>
    LET naps == schedule.naps
        n == Len(naps)
        window == IF ageMonths < 3 THEN 53
                  ELSE IF ageMonths < 6 THEN 120
                  ELSE IF ageMonths < 9 THEN 150
                  ELSE IF ageMonths < 12 THEN 210
                  ELSE 240
        dur(i) == naps[i].endMinutes - naps[i].startMinutes
    IN  /\ n = numNaps
        /\ schedule.wakeTime = last.minutes
        /\ \A i \in 1..n :
             /\ naps[i].startMinutes = PrevBoundary(schedule, i - 1) + window
             /\ dur(i) = getNapDuration(ageMonths, i, numNaps)
        /\ dur(n) = 30
        /\ \A i \in 1..(n - 1) : dur(i) > 30 /\ dur(i) = dur(1)
        /\ (ageMonths = 6 /\ numNaps = 3 /\ last.minutes = 450) =>
             /\ naps = << [startMinutes |-> 600, endMinutes |-> 675],
                          [startMinutes |-> 825, endMinutes |-> 900],
                          [startMinutes |-> 1050, endMinutes |-> 1080] >>
             /\ schedule.bedtime = 1230

C3_Witness ==
  /\ variant = "gen" /\ last.op = "generate"
  /\ ageMonths = 6 /\ numNaps = 3 /\ last.minutes = 450
  /\ schedule.naps[3] = [startMinutes |-> 1050, endMinutes |-> 1080]
  /\ schedule.bedtime = 1230

\* C4: the generated bedtime is min(last nap end + awake window, 1320), so it
\* is never later than 22:00.
C4_BedtimeCeiling ==
  (variant = "gen" /\ last.op = "generate") =>
    LET lastEnd == schedule.naps[Len(schedule.naps)].endMinutes
        uncapped == lastEnd + getAwakeWindow(ageMonths)
    IN  /\ schedule.bedtime = (IF uncapped > 1320 THEN 1320 ELSE uncapped)
        /\ schedule.bedtime <= 1320

C4_Witness ==
  /\ variant = "gen" /\ last.op = "generate"
  /\ schedule.naps[Len(schedule.naps)].endMinutes + getAwakeWindow(ageMonths) > 1320
  /\ schedule.bedtime = 1320

\* C5: under the rigid-shift policy a wake drag to pointer value m sets
\* wakeTime to m and adds m - old wakeTime to every nap start, every nap end
\* and bedtime, so no nap duration and no awake window changes.
C5_WakeRigidShift ==
  (variant \in {"shift", "form"} /\ Dragged("wake")) =>
    LET prev == last.prev
        delta == last.minutes - prev.wakeTime
        old == Boundaries(prev)
        new == Boundaries(schedule)
    IN  /\ schedule.wakeTime = last.minutes
        /\ Len(schedule.naps) = Len(prev.naps)
        /\ \A i \in 1..Len(prev.naps) :
             /\ schedule.naps[i].startMinutes = prev.naps[i].startMinutes + delta
             /\ schedule.naps[i].endMinutes = prev.naps[i].endMinutes + delta
        /\ schedule.bedtime = prev.bedtime + delta
        /\ \A k \in 1..(Len(old) - 1) : new[k + 1] - new[k] = old[k + 1] - old[k]

C5_Witness ==
  /\ variant = "shift" /\ Dragged("wake")
  /\ last.minutes - last.prev.wakeTime > 0
  /\ Len(schedule.naps) >= 2
  /\ schedule.bedtime = last.prev.bedtime + (last.minutes - last.prev.wakeTime)

\* C6: in page.tsx a wake drag to pointer value m sets wakeTime to
\* min(m, naps[0].startMinutes - 30), or min(m, bedtime - 60) without naps,
\* and changes no nap and not bedtime.
C6_WakeIndependentClamp ==
  (variant = "page" /\ Dragged("wake")) =>
    LET prev == last.prev
        bound == IF Len(prev.naps) > 0
                 THEN prev.naps[1].startMinutes - 30
                 ELSE prev.bedtime - 60
    IN  /\ schedule.wakeTime = (IF last.minutes < bound THEN last.minutes ELSE bound)
        /\ schedule.naps = prev.naps
        /\ schedule.bedtime = prev.bedtime

C6_Witness ==
  /\ variant = "page" /\ Dragged("wake")
  /\ last.minutes > last.prev.naps[1].startMinutes - 30
  /\ schedule.wakeTime = last.prev.naps[1].startMinutes - 30
  /\ schedule.wakeTime # last.prev.wakeTime

\* C7: a bedtime drag to pointer value m sets bedtime to
\* max(m, last nap end + gap), gap 30 in page.tsx and 15 in part_002, or to
\* max(m, wakeTime + 60) without naps; bedtime is never below that bound.
C7_BedtimeLowerBound ==
  (variant \in {"page", "form"} /\ Dragged("bedtime")) =>
    LET prev == last.prev
        gap == IF variant = "page" THEN 30 ELSE 15
        bound == IF Len(prev.naps) > 0
                 THEN prev.naps[Len(prev.naps)].endMinutes + gap
                 ELSE prev.wakeTime + 60
    IN  /\ schedule.bedtime = (IF last.minutes > bound THEN last.minutes ELSE bound)
        /\ schedule.bedtime >= bound

C7_Witness ==
  /\ variant = "page" /\ Dragged("bedtime")
  /\ last.minutes < last.prev.naps[Len(last.prev.naps)].endMinutes + 30
  /\ schedule.bedtime = last.prev.naps[Len(last.prev.naps)].endMinutes + 30
  /\ schedule.bedtime # last.prev.bedtime

\* C8: after a napStart drag on nap i, with any pointer value and in any
\* reachable schedule, the new start lies in
\* [previous boundary + 30, naps[i].endMinutes - 15].
C8_NapStartClamped ==
  (variant = "page" /\ Dragged("napStart")) =>
    LET i == last.drag.index
        nap == schedule.naps[i + 1]
    IN  /\ PrevBoundary(schedule, i) + 30 <= nap.startMinutes
        /\ nap.startMinutes <= nap.endMinutes - 15

C8_Witness ==
  /\ variant = "page" /\ Dragged("napStart")
  /\ last.drag.index >= 1
  /\ last.minutes < PrevBoundary(last.prev, last.drag.index) + 30
  /\ schedule.naps[last.drag.index + 1].startMinutes =
       PrevBoundary(last.prev, last.drag.index) + 30
  /\ schedule # last.prev

\* C9: a napEnd drag on nap i whose pointer value exceeds next boundary - 30
\* sets the end to exactly next boundary - 30, and in every case the new end
\* lies in [naps[i].startMinutes + 15, next boundary - 30].
\* (False of the code when the generated bedtime of C1 lies before the last
\* nap.)
C9_NapEndClamped ==
  (variant = "page" /\ Dragged("napEnd")) =>
    LET i == last.drag.index
        nap == schedule.naps[i + 1]
        maxEnd == NextBoundary(schedule, i) - 30
    IN  /\ last.minutes > maxEnd => nap.endMinutes = maxEnd
        /\ nap.startMinutes + 15 <= nap.endMinutes
        /\ nap.endMinutes <= maxEnd

\* C10: a napMove drag on nap i keeps the nap's duration, sets its start to
\* pointer - grab offset clamped, and leaves the whole block within
\* [previous boundary + 30, next boundary - 30].
\* (False of the code when the generated bedtime of C1 lies before the last
\* nap.)
C10_NapMoveWithinBounds ==
  (variant = "page" /\ Dragged("napMove")) =>
    LET i == last.drag.index
        nap == schedule.naps[i + 1]
        old == last.prev.naps[i + 1]
    IN  /\ nap.endMinutes - nap.startMinutes = old.endMinutes - old.startMinutes
        /\ PrevBoundary(schedule, i) + 30 <= nap.startMinutes
        /\ nap.endMinutes <= NextBoundary(schedule, i) - 30

\* the dragging states a press on schedule s can set in the rigid-shift
\* revision
DragsOfShift(s) ==
  {Drag("wake", -1, -1), Drag("bedtime", -1, -1)} \cup
  { Drag(type, index, -1) :
      type \in {"napStart", "napEnd"}, index \in 0..(Len(s.naps) - 1) }

\* the pointer value at which the boundary grabbed by `drag` lies where it
\* already is in s
HeldPosition(s, drag) ==
  IF drag.type = "wake" THEN s.wakeTime
  ELSE IF drag.type = "bedtime" THEN s.bedtime
  ELSE IF drag.type = "napStart" THEN napAt(s, drag.index).startMinutes
  ELSE IF drag.type = "napEnd" THEN napAt(s, drag.index).endMinutes
  ELSE napAt(s, drag.index).startMinutes + drag.offset

\* applying a drag step twice with the same pointer value gives what applying
\* it once gives, from the current schedule, for every grab and every pointer
StepIdempotent ==
  /\ variant = "page" =>
       \A drag \in DragsOf(schedule) : \A y \in PointerYs :
         LET once == scheduleUpdater(schedule, drag, pointerMinutes(y))
         IN  scheduleUpdater(once, drag, pointerMinutes(y)) = once
  /\ variant = "shift" =>
       \A drag \in DragsOfShift(schedule) : \A y \in PointerYs :
         LET once == scheduleUpdaterShift(schedule, drag, pointerMinutesShift(y))
         IN  scheduleUpdaterShift(once, drag, pointerMinutesShift(y)) = once

\* a drag step whose pointer is at the position the grabbed boundary already
\* holds leaves the schedule as it is
HeldPositionFixed ==
  /\ variant = "page" =>
       \A drag \in DragsOf(schedule) :
         scheduleUpdater(schedule, drag, HeldPosition(schedule, drag)) = schedule
  /\ variant = "shift" =>
       \A drag \in DragsOfShift(schedule) :
         scheduleUpdaterShift(schedule, drag, HeldPosition(schedule, drag)) = schedule

\* C11: drag steps are idempotent: for every drag type, index, grab offset
\* and pointer value, applying the same step twice gives what applying it
\* once gives, so dragging a boundary to the position it already holds leaves
\* the whole schedule unchanged.
\* (The second half is false of the code when the generated bedtime of C1
\* lies before the last nap: a bedtime drag to the bedtime's own position
\* moves it.)
C11_DragStepsIdempotent ==
  StepIdempotent /\ HeldPositionFixed

\* the minute of the day a "h:mm AM/PM" string shows on the 12-hour clock
clockReading(str) ==
  LET pieces == split(str, ":")
      hour12 == Number(pieces[1])
      mins == Number(SubSeq(pieces[2], 1, 2))
      isPM == SubSeq(pieces[2], 4, 5) = <<"P", "M">>
  IN  ((hour12 % 12) + (IF isPM THEN 12 ELSE 0)) * 60 + mins

\* C12 (as stated): for every minute offset m, parseTime(formatTime(m))
\* equals m modulo 1440.
C12_RoundTrip ==
  (variant = "fmt" /\ last.op = "parse") =>
    schedule.wakeTime = last.minutes % 1440

\* C12 (amended): formatTime(m) is the 12-hour reading "h:mm AM" or
\* "h:mm PM" of m modulo 1440, and parseTime, which reads the 24-hour
\* "HH:MM" value of a time input, returns NaN for it, for every m: its
\* second piece carries the AM/PM suffix.
C12_FormatIsClockReadingParseIsNaN ==
  /\ (variant = "fmt" /\ last.op = "parse") => schedule.wakeTime = NaN
  /\ (variant = "fmt" /\ last.op \in {"format", "parse"}) =>
       /\ Len(split(wakeTime, ":")) = 2
       /\ Number(split(wakeTime, ":")[1]) \in 1..12
       /\ Number(split(wakeTime, ":")[2]) = NaN
       /\ clockReading(wakeTime) = last.minutes % 1440

C12_Witness ==
  /\ variant = "fmt" /\ last.op = "parse"
  /\ last.minutes = 13 * 60 + 5 - 1440
  /\ wakeTime = <<"1", ":", "0", "5", " ", "P", "M">>
  /\ schedule.wakeTime = NaN

\* C13: whenever the selected age or nap count changes in page.tsx, the
\* schedule is replaced by generateSchedule(new age, new nap count, current
\* wakeTime): the wake time, dragged or not, is kept, and the naps and
\* bedtime are the generated ones whatever they were before.
C13_RegeneratedOnChange ==
  [][ (variant = "page" /\ (ageMonths' # ageMonths \/ numNaps' # numNaps)) =>
        /\ schedule' = generateSchedule(ageMonths', numNaps', schedule.wakeTime)
        /\ schedule'.wakeTime = schedule.wakeTime ]_vars

C13_Witness ==
  /\ variant = "page" /\ last.op \in {"selectAge", "selectNaps"}
  /\ last.prev.wakeTime # 7 * 60 + 30
  /\ last.prev # generateSchedule(6, 3, last.prev.wakeTime)
  /\ schedule = generateSchedule(ageMonths, numNaps, last.prev.wakeTime)
  /\ schedule.wakeTime = last.prev.wakeTime
  /\ schedule.naps # last.prev.naps

\* C14: the drag state of page.tsx is either idle (dragging = null) or
\* dragging one boundary; while it is dragging a pointer release is always
\* handled, whatever the boundary type, the index and the schedule, and
\* handling it makes the state idle and changes nothing else of the page.
C14_ReleaseReturnsToIdle ==
  /\ [](variant = "page" =>
          /\ dragging = NoDrag
               \/ dragging.type \in {"wake", "bedtime", "napStart", "napEnd", "napMove"}
          /\ (dragging # NoDrag /\ ~crashed) => ENABLED HandleMouseUp)
  /\ [][ (variant = "page" /\ last'.op = "mouseUp") =>
           /\ dragging # NoDrag
           /\ dragging' = NoDrag
           /\ schedule' = schedule
           /\ ageMonths' = ageMonths /\ numNaps' = numNaps ]_vars

C14_Witness ==
  /\ variant = "page" /\ last.op = "mouseUp"
  /\ dragging = NoDrag
  /\ steps = MaxSteps
  /\ schedule # generateSchedule(ageMonths, numNaps, schedule.wakeTime)

\* C15: generateSchedule has no error outcome: for every age 0..24, every
\* nap count 1..5 and every wake time it returns a schedule whose wakeTime is
\* the wake time given and whose naps list has exactly numNaps entries, each
\* with a start and an end.
C15_GenerateTotal ==
  (variant = "gen" /\ last.op = "generate") =>
    /\ ~crashed
    /\ DOMAIN schedule = {"wakeTime", "bedtime", "naps"}
    /\ schedule.wakeTime = last.minutes
    /\ Len(schedule.naps) = numNaps
    /\ \A i \in 1..numNaps :
         DOMAIN schedule.naps[i] = {"startMinutes", "endMinutes"}
    /\ schedule.bedtime \in Int

C15_Witness ==
  /\ variant = "gen" /\ last.op = "generate"
  /\ ageMonths = 0 /\ numNaps = 5 /\ last.minutes = 5 * MaxWakeSlot
  /\ schedule.wakeTime = 5 * MaxWakeSlot
  /\ Len(schedule.naps) = 5

\* the awake window a generator used: the time from wake-up to the start of
\* the first nap in what it returned (read off the formatted times for the
\* lib)
WindowUsed ==
  IF last.op = "lib"
  THEN (clockReading(schedule[2].time) - clockReading(schedule[1].time)) % 1440
  ELSE schedule.naps[1].startMinutes - schedule.wakeTime

\* C16 (as stated): for every age 0..24 the awake window used by generation
\* is Math.round of the midpoint of the age band's range, and every variant
\* uses that same value, the hard-coded tables included.
C16_AwakeWindowsAgree ==
  (variant = "win" /\ last.op # "input") =>
    /\ WindowUsed = getAwakeWindow(ageMonths)
    /\ WindowUsed = avgAwakeWindow(ageMonths)

\* C16 (amended): page.tsx and the lib use Math.round of the midpoint of
\* their own band range: 53, 120, 150, 210, and 240 in page.tsx from 12
\* months on, where it has a band 180-300 of its own; the hard-coded tables of
\* the other variants hold the midpoint of the lib's band rounded down (52 for
\* ages under 3, where the midpoint is 52.5).  All variants agree for ages
\* 3 to 11 only.
C16_AwakeWindowPerVariant ==
  (variant = "win" /\ last.op # "input") =>
    LET band == IF ageMonths < 3 THEN 1 ELSE IF ageMonths < 6 THEN 2
                ELSE IF ageMonths < 9 THEN 3 ELSE IF ageMonths < 12 THEN 4
                ELSE 5
        range == getAwakeWindowRange(ageMonths)
        rangeLib == getAwakeWindowLib(ageMonths)
    IN  /\ last.op = "page" =>
             /\ WindowUsed = <<53, 120, 150, 210, 240>>[band]
             /\ WindowUsed = MathRound(range.min + range.max, 2)
        /\ last.op = "lib" =>
             /\ WindowUsed = <<53, 120, 150, 210, 210>>[band]
             /\ WindowUsed = MathRound(rangeLib.min + rangeLib.max, 2)
        /\ last.op \in {"shift", "form"} =>
             /\ WindowUsed = <<52, 120, 150, 210, 210>>[band]
             /\ WindowUsed = (rangeLib.min + rangeLib.max) \div 2
        /\ ageMonths \in 3..11 =>
             /\ WindowUsed = getAwakeWindow(ageMonths)
             /\ WindowUsed = avgAwakeWindow(ageMonths)
             /\ WindowUsed = getAwakeWindowFixed(ageMonths)

C16_Witness ==
  /\ variant = "win" /\ last.op = "form"
  /\ ageMonths = 2
  /\ WindowUsed = 52
  /\ getAwakeWindow(ageMonths) = 53

Advice(duration, range) ==
  IF duration < range.min THEN "short"
  ELSE IF duration > range.max THEN "long"
  ELSE "null"

\* C18: isAwakeWindowOutOfRange and isNapOutOfRange return "short" exactly
\* when the duration is below the band minimum, "long" exactly when it is
\* above the band maximum and null otherwise, a duration equal to a bound
\* being in range; their result is advice only: a regeneration returns what
\* generateSchedule returns and a drag step what the updater returns,
\* whatever warnings the schedule shows, and a pointer move is handled in
\* every dragging state.
C18_ChecksAdvisory ==
  variant = "page" =>
    /\ last.op = "mount" =>
         \A age \in AgeRange : \A duration \in 0..MaxDuration :
           /\ isAwakeWindowOutOfRange(duration, age)
                = Advice(duration, getAwakeWindowRange(age))
           /\ \A isLastNap \in BOOLEAN :
                isNapOutOfRange(duration, age, isLastNap)
                  = Advice(duration, getNapDurationRange(age, isLastNap))
    /\ \A i \in 1..Len(getAwakeWindows(schedule)) :
         LET window == getAwakeWindows(schedule)[i]
         IN  awakeWarnings(schedule, ageMonths)[i]
               = Advice(window.end - window.start, getAwakeWindowRange(ageMonths))
    /\ \A i \in 1..Len(schedule.naps) :
         LET nap == schedule.naps[i]
         IN  napWarnings(schedule, ageMonths)[i]
               = Advice(nap.endMinutes - nap.startMinutes,
                        getNapDurationRange(ageMonths, i = Len(schedule.naps)))
    /\ last.op = "drag" =>
         schedule = scheduleUpdater(last.prev, last.drag, last.minutes)
    /\ last.op \in {"selectAge", "selectNaps"} =>
         schedule = generateSchedule(ageMonths, numNaps, last.prev.wakeTime)
    /\ (dragging # NoDrag /\ ~crashed /\ steps < MaxSteps) =>
         ENABLED HandleMouseMove(0)

\* a drag step taken from a schedule that shows a warning, leaving a nap of
\* exactly the band minimum, which shows none
C18_Witness ==
  /\ variant = "page" /\ last.op = "drag"
  /\ \E i \in 1..Len(last.prev.naps) : napWarnings(last.prev, ageMonths)[i] = "short"
  /\ schedule # last.prev
  /\ \E i \in 1..Len(schedule.naps) :
       /\ schedule.naps[i].endMinutes - schedule.naps[i].startMinutes
            = getNapDurationRange(ageMonths, i = Len(schedule.naps)).min
       /\ napWarnings(schedule, ageMonths)[i] = "null"
  /\ \E i \in 1..Len(schedule.naps) : napWarnings(schedule, ageMonths)[i] = "short"

\* C19 (as stated): handleReset discards the schedule: after a reset no
\* schedule is held, in part_002 and in the slider variant alike, and in
\* part_002 showSchedule is true if and only if schedule is non-null.
C19_ResetDiscardsSchedule ==
  /\ (variant = "form" /\ last.op = "reset") => schedule = NoSchedule
  /\ (variant = "slider" /\ last.op = "reset") => schedule = <<>>
  /\ variant = "form" => (showSchedule <=> schedule # NoSchedule)

\* C19 (amended): in part_002 handleReset sets schedule to null and
\* showSchedule to false, and showSchedule is true if and only if schedule is
\* non-null in every reachable state.  The slider variant's handleReset only
\* sets showSchedule to false: the list stays in the state, hidden, until the
\* next submit replaces it with a generated one.
C19_ResetHidesOrDiscards ==
  /\ (variant = "form" /\ last.op = "reset") =>
       schedule = NoSchedule /\ ~showSchedule
  /\ variant = "form" => (showSchedule <=> schedule # NoSchedule)
  /\ (variant = "slider" /\ last.op = "reset") =>
       schedule = last.prev /\ schedule # <<>> /\ ~showSchedule
  /\ (variant = "slider" /\ last.op = "submit") =>
       /\ showSchedule
       /\ schedule = generateInitialScheduleSlider(ageMonths, numNaps, parseTime(wakeTime))
  /\ (variant = "slider" /\ showSchedule) => schedule # <<>>

C19_Witness ==
  /\ variant = "slider" /\ last.op = "reset"
  /\ ~showSchedule
  /\ Len(schedule) = numNaps + 2
  /\ schedule # generateInitialScheduleSlider(ageMonths, numNaps, parseTime(wakeTime))

\* C20: each drag step of page.tsx preserves the ordering and gap invariant:
\* if the schedule before the step satisfies wakeTime + 30 <= naps[0].start,
\* naps[i].start + 15 <= naps[i].end, naps[i].end + 30 <= naps[i+1].start and
\* naps[last].end + 30 <= bedtime, the schedule after a wake, bedtime,
\* napStart, napEnd or napMove step satisfies it too, for every pointer value.
C20_DragStepPreservesInvariant ==
  (variant \in {"page", "ind"} /\ last.op = "drag"
     /\ OrderedWithGaps(last.prev, 30)) =>
    OrderedWithGaps(schedule, 30)

\* a nap moved against the boundary after it, every gap around it at its
\* least before the step or after it
C20_Witness ==
  /\ variant = "ind" /\ Dragged("napMove")
  /\ OrderedWithGaps(last.prev, 30)
  /\ last.drag.index = 0 /\ Len(schedule.naps) = 2
  /\ last.minutes - last.drag.offset > last.prev.naps[1].startMinutes
  /\ schedule.naps[1].endMinutes + 30 = schedule.naps[2].startMinutes
  /\ schedule # last.prev
  /\ OrderedWithGaps(schedule, 30)

\* C21: stored times stay within one day: in every reachable schedule of
\* page.tsx and of part_002, right after a generation and after any drag
\* steps, wakeTime, bedtime and the start and end of every nap lie in
\* 0..1439.
\* (False of the code: the generator walks forward from the wake time with no
\* bound, generate(6, 5, 450) ends its last nap at 1530.)
C21_TimesWithinOneDay ==
  (variant \in {"page", "form"} /\ schedule # NoSchedule) =>
    \A k \in 1..Len(Boundaries(schedule)) : Boundaries(schedule)[k] \in 0..1439

\* C23: in the slider variant the events stay in chronological order: after
\* any sequence of handleTimeChange calls with values in 300..1320,
\* item[k].minutes <= item[k+1].minutes for every adjacent pair.
\* (False of the code: a slider moves its event and the later ones, never the
\* earlier ones, and is not stopped at the event before it.)
C23_SliderChronological ==
  variant = "slider" =>
    \A k \in 1..(Len(schedule) - 1) : schedule[k].minutes <= schedule[k + 1].minutes

\* C24: a napStart, napEnd or napMove step on nap i changes only naps[i]:
\* wakeTime, bedtime, the number of naps and every other nap are unchanged,
\* napStart leaves naps[i].endMinutes unchanged and napEnd leaves
\* naps[i].startMinutes unchanged; a bedtime step changes only bedtime.
C24_DragFrame ==
  (variant \in {"page", "ind"} /\ last.op = "drag") =>
    LET prev == last.prev
        i == last.drag.index
        type == last.drag.type
    IN  /\ type \in {"napStart", "napEnd", "napMove"} =>
             /\ schedule.wakeTime = prev.wakeTime
             /\ schedule.bedtime = prev.bedtime
             /\ Len(schedule.naps) = Len(prev.naps)
             /\ \A j \in 1..Len(prev.naps) :
                  j # i + 1 => schedule.naps[j] = prev.naps[j]
             /\ type = "napStart" =>
                  schedule.naps[i + 1].endMinutes = prev.naps[i + 1].endMinutes
             /\ type = "napEnd" =>
                  schedule.naps[i + 1].startMinutes = prev.naps[i + 1].startMinutes
        /\ type = "bedtime" =>
             /\ schedule.wakeTime = prev.wakeTime
             /\ schedule.naps = prev.naps

\* a napStart step that moved the start of the middle nap of three
C24_Witness ==
  /\ variant = "page" /\ Dragged("napStart")
  /\ Len(schedule.naps) = 3 /\ last.drag.index = 1
  /\ schedule.naps[2].startMinutes # last.prev.naps[2].startMinutes
  /\ schedule.naps[2].endMinutes = last.prev.naps[2].endMinutes
  /\ schedule.naps[1] = last.prev.naps[1]
  /\ schedule.naps[3] = last.prev.naps[3]

\* C26: in page.tsx the number of naps in the schedule equals the selected
\* nap count: after any age selections (which set numNaps to
\* getSuggestedNaps(age)), nap-count selections and drag steps,
\* schedule.naps.length = numNaps and numNaps is in 1..5; no drag step adds
\* or removes a nap.
C26_NapCountMatches ==
  variant = "page" =>
    /\ Len(schedule.naps) = numNaps
    /\ numNaps \in 1..5
    /\ last.op = "selectAge" => numNaps = getSuggestedNaps(ageMonths)
    /\ last.op = "drag" => Len(schedule.naps) = Len(last.prev.naps)

\* a drag step taken after an age selection that changed the nap count
C26_Witness ==
  /\ variant = "page" /\ last.op = "drag"
  /\ ageMonths = 1 /\ numNaps = 4
  /\ Len(schedule.naps) = 4
  /\ schedule # last.prev

\* C27: a freshly generated schedule shows no out-of-range warning: for every
\* age 1..24, nap count 1..5 and wake time, every awake window lies within
\* getAwakeWindowRange(age) and every nap duration within
\* getNapDurationRange(age, isLastNap).
\* (False of the code, through the 22:00 ceiling of C1: the capped bedtime
\* shortens the last awake window.)
C27_GeneratedShowsNoWarning ==
  (variant = "gen" /\ last.op = "generate" /\ ageMonths \in 1..24) =>
    /\ \A i \in 1..Len(getAwakeWindows(schedule)) :
         awakeWarnings(schedule, ageMonths)[i] = "null"
    /\ \A i \in 1..Len(schedule.naps) :
         napWarnings(schedule, ageMonths)[i] = "null"

\* every boundary of s is a multiple of 5
OnFiveMinuteGrid(s) ==
  \A k \in 1..Len(Boundaries(s)) : Boundaries(s)[k] % 5 = 0

\* C22: every boundary value written by a drag step is on the 5-minute grid:
\* from a schedule of page.tsx whose boundaries are all multiples of 5, a
\* wake, bedtime, napStart, napEnd or napMove step leaves every boundary a
\* multiple of 5, and so does any sequence of them.
\* (False of the code: the grab offset of a napMove is not snapped.)
C22_DragStepsStayOnGrid ==
  (variant = "page" /\ last.op = "drag" /\ OnFiveMinuteGrid(last.prev)) =>
    OnFiveMinuteGrid(schedule)

\* C25: the schedule of page.tsx changes only through a drag step taken
\* while dragging is non-null or through a regeneration: no pointer move is
\* handled while idle, a pointer release leaves the page idle, and the page
\* leaves the idle state only by a pointer-down, so after a release no
\* pointer move changes the schedule until the next pointer-down.
C25_ScheduleChangesOnlyWhileDragging ==
  /\ [](variant = "page" =>
          /\ dragging = NoDrag => ~ENABLED (\E y \in PointerYs : HandleMouseMove(y))
          /\ last.op = "mouseUp" => dragging = NoDrag)
  /\ [][ (variant = "page" /\ schedule' # schedule) =>
           \/ /\ dragging # NoDrag /\ dragging' = dragging
              /\ last'.op = "drag"
              /\ schedule' = scheduleUpdater(schedule, dragging, last'.minutes)
           \/ /\ ageMonths' # ageMonths \/ numNaps' # numNaps
              /\ last'.op \in {"selectAge", "selectNaps"} ]_vars
  /\ [][ (variant = "page" /\ dragging = NoDrag /\ dragging' # NoDrag) =>
           last'.op = "mouseDown" /\ schedule' = schedule ]_vars

\* the page idle again after one drag step that moved the wake marker, with
\* a schedule-changing event still allowed
C25_Witness ==
  /\ variant = "page" /\ last.op = "mouseUp"
  /\ dragging = NoDrag
  /\ steps = 1
  /\ schedule.wakeTime # 7 * 60 + 30
  /\ schedule.naps = generateSchedule(6, 3, 7 * 60 + 30).naps
  /\ ~ENABLED (\E y \in PointerYs : HandleMouseMove(y))

\* C28: the displayed night-sleep duration is a valid duration in every
\* reachable state of page.tsx: getNightSleep (wakeTime - bedtime, plus 1440
\* when negative) returns a value in 0..1439 after any generation and any
\* sequence of drag steps.
\* (False of the code, through the stored times of C21: a bedtime dragged
\* behind a last nap that ends after the end of the day lies more than 1440
\* minutes after the wake time.)
C28_NightSleepValid ==
  variant = "page" => getNightSleep(schedule) \in 0..1439

\* C29: in the clock-face variant a drag step stores a normalized time:
\* after a bedtime or wake drag at any pointer angle the dragged field is a
\* multiple of 5 in 0..1435, never 1440, the other field is unchanged, and
\* the resulting night-sleep duration is in 0..1439.
\* (False of the code: a pointer within 0.6 degrees to the left of straight
\* up is rounded to 1440.)
C29_ClockStoresNormalizedTime ==
  (variant = "clock" /\ last.op = "drag") =>
    LET prev == last.prev
        isBedtime == last.drag.type = "bedtime"
        field == IF isBedtime THEN schedule.bedtime ELSE schedule.wakeTime
    IN  /\ field % 5 = 0
        /\ field \in 0..1435
        /\ isBedtime => schedule.wakeTime = prev.wakeTime
        /\ ~isBedtime => schedule.bedtime = prev.bedtime
        /\ getNightSleep(schedule) \in 0..1439

====
